---- MODULE Spec2Model ----
(***************************************************************************)
(* Model of src/main.py: the Graph adjacency-list container, its mutation  *)
(* and query methods, and the traversal / analysis algorithms built on it. *)
(*                                                                         *)
(* adj_list is a Python dict (insertion ordered) from node to list of      *)
(* neighbours.  It is modelled as the sequence of its items, in insertion  *)
(* order: each item is a record [node, nbrs].                              *)
(***************************************************************************)
EXTENDS Integers, Sequences, FiniteSets, TLC

\* ------------------------------------------------------------------ bounds
MaxNodes == 4
MaxCalls == 4

\* ------------------------------------------------------------------ values
\* Hashable node identities (str, int, tuple of such).
Nodes == 1..MaxNodes
\* A list value such as [1]: fails the isinstance test of add_edge.
ListValue == MaxNodes + 1
\* A tuple holding a list such as ([],): an instance of tuple, yet unhashable.
TupleOfList == MaxNodes + 2
Values == Nodes \cup {ListValue, TupleOfList}

\* isinstance(v, (int, str, tuple))
IsAllowedInstance(v) == v # ListValue
\* hash(v) succeeds; a dict lookup or a set insertion of any other value
\* raises TypeError.
IsHashable(v) == v \in Nodes

\* ------------------------------------------------------------ dict helpers
KeySet(d) == {d[i].node : i \in 1..Len(d)}
HasKey(d, n) == n \in KeySet(d)
IndexOf(d, n) == CHOOSE i \in 1..Len(d) : d[i].node = n
Lookup(d, n) == d[IndexOf(d, n)].nbrs
InList(s, x) == \E i \in 1..Len(s) : s[i] = x
Elems(s) == {s[i] : i \in 1..Len(s)}

\* list.remove(x): drops the first occurrence of x.
ListRemove(s, x) ==
  LET k == CHOOSE i \in 1..Len(s) : s[i] = x /\ \A j \in 1..(i-1) : s[j] # x
  IN  SubSeq(s, 1, k-1) \o SubSeq(s, k+1, Len(s))

\* del d[n]
DictDelete(d, n) ==
  LET k == IndexOf(d, n)
  IN  SubSeq(d, 1, k-1) \o SubSeq(d, k+1, Len(d))

\* d[n].append(x)
AppendNbr(d, n, x) ==
  [d EXCEPT ![IndexOf(d, n)].nbrs = Append(@, x)]

\* ---------------------------------------------------------------- methods
\* Graph.add_node, for a hashable node.
add_node(d, node) ==
  IF ~HasKey(d, node) THEN Append(d, [node |-> node, nbrs |-> <<>>]) ELSE d

\* Graph.add_node as called: the membership test hashes the node.
AddNodeCall(d, node) ==
  IF ~IsHashable(node) THEN [adj |-> d, err |-> "TypeError"]
  ELSE [adj |-> add_node(d, node), err |-> "none"]

\* A wrong add_edge body: the reverse link is never stored.
AddEdgeLinksOneWay(d, from_node, to_node, bidirectional) ==
  LET d1 == add_node(add_node(d, from_node), to_node)
  IN  IF ~InList(Lookup(d1, from_node), to_node)
      THEN AppendNbr(d1, from_node, to_node) ELSE d1

\* The body of add_edge after the two guards, for hashable endpoints.
AddEdgeLinks(d, from_node, to_node, bidirectional) ==
  LET d1 == add_node(add_node(d, from_node), to_node)
      d2 == IF ~InList(Lookup(d1, from_node), to_node)
            THEN AppendNbr(d1, from_node, to_node) ELSE d1
      d3 == IF bidirectional /\ ~InList(Lookup(d2, to_node), from_node)
            THEN AppendNbr(d2, to_node, from_node) ELSE d2
  IN  d3

\* Graph.add_edge
add_edge(d, from_node, to_node, bidirectional) ==
  IF ~(IsAllowedInstance(from_node) /\ IsAllowedInstance(to_node))
  THEN [adj |-> d, err |-> "TypeError"]
  ELSE IF from_node = to_node
  THEN [adj |-> d, err |-> "ValueError"]
  ELSE IF ~IsHashable(from_node)
  THEN [adj |-> d, err |-> "TypeError"]
  ELSE IF ~IsHashable(to_node)
  THEN [adj |-> add_node(d, from_node), err |-> "TypeError"]
  ELSE [adj |-> AddEdgeLinks(d, from_node, to_node, bidirectional),
        err |-> "none"]

\* Graph.get_neighbors, the value returned.
get_neighbors(d, node) == IF HasKey(d, node) THEN Lookup(d, node) ELSE <<>>

\* A wrong remove_node: the key is deleted, the other lists are not purged.
remove_node_nopurge(d, node) ==
  IF HasKey(d, node) THEN DictDelete(d, node) ELSE d

\* Graph.remove_node, for a hashable node.
remove_node(d, node) ==
  IF HasKey(d, node)
  THEN LET purged == [i \in 1..Len(d) |->
                        [d[i] EXCEPT !.nbrs = IF InList(@, node)
                                              THEN ListRemove(@, node) ELSE @]]
       IN  DictDelete(purged, node)
  ELSE d

RemoveNodeCall(d, node) ==
  IF ~IsHashable(node) THEN [adj |-> d, err |-> "TypeError"]
  ELSE [adj |-> remove_node(d, node), err |-> "none"]

\* ------------------------------------------------------------- algorithms
\* A wrong scan: visited.add(neighbor) is missing.
RECURSIVE BfsScanNoMark(_, _, _, _)
BfsScanNoMark(nbrs, i, visited, queue) ==
  IF i > Len(nbrs) THEN [visited |-> visited, queue |-> queue]
  ELSE IF nbrs[i] \notin visited
       THEN BfsScanNoMark(nbrs, i + 1, visited, Append(queue, nbrs[i]))
       ELSE BfsScanNoMark(nbrs, i + 1, visited, queue)

\* bfs: the for loop over the neighbours of the dequeued node.
RECURSIVE BfsScan(_, _, _, _)
BfsScan(nbrs, i, visited, queue) ==
  IF i > Len(nbrs) THEN [visited |-> visited, queue |-> queue]
  ELSE IF nbrs[i] \notin visited
       THEN BfsScan(nbrs, i + 1, visited \cup {nbrs[i]}, Append(queue, nbrs[i]))
       ELSE BfsScan(nbrs, i + 1, visited, queue)

\* bfs: the while loop.
RECURSIVE BfsLoop(_, _, _, _)
BfsLoop(d, queue, visited, order) ==
  IF queue = <<>> THEN order
  ELSE LET current == Head(queue)
           r == BfsScan(get_neighbors(d, current), 1, visited, Tail(queue))
       IN  BfsLoop(d, r.queue, r.visited, Append(order, current))

\* A wrong bfs: the frontier is popped from the right (queue.pop()).
RECURSIVE BfsLoopLifo(_, _, _, _)
BfsLoopLifo(d, queue, visited, order) ==
  IF queue = <<>> THEN order
  ELSE LET current == queue[Len(queue)]
           r == BfsScan(get_neighbors(d, current), 1, visited,
                        SubSeq(queue, 1, Len(queue) - 1))
       IN  BfsLoopLifo(d, r.queue, r.visited, Append(order, current))

bfs_lifo(d, start) == BfsLoopLifo(d, <<start>>, {start}, <<>>)

\* bfs(graph, start), for a hashable start.
bfs(d, start) == BfsLoop(d, <<start>>, {start}, <<>>)

\* Graph.has_path
has_path(d, start, end) == InList(bfs(d, start), end)

\* A wrong is_connected: looks at the start node's own neighbours only.
is_connected_direct(d) ==
  IF d = <<>> THEN TRUE
  ELSE Len(get_neighbors(d, d[1].node)) + 1 = Len(d)

\* Graph.is_connected: next(iter(adj_list)) is the first key inserted.
is_connected(d) ==
  IF d = <<>> THEN TRUE
  ELSE LET start == d[1].node
           visited == Elems(bfs(d, start))
       IN  Cardinality(visited) = Len(d)

\* A wrong scan: the frontier entry keeps the dequeued vertex's path, the
\* neighbour is not appended to it.
RECURSIVE SpScanStale(_, _, _, _, _)
SpScanStale(nbrs, i, path, visited, queue) ==
  IF i > Len(nbrs) THEN [visited |-> visited, queue |-> queue]
  ELSE IF nbrs[i] \notin visited
       THEN SpScanStale(nbrs, i + 1, path, visited \cup {nbrs[i]},
                        Append(queue, [vertex |-> nbrs[i], path |-> path]))
       ELSE SpScanStale(nbrs, i + 1, path, visited, queue)

\* shortest_path: the for loop over the neighbours of the dequeued vertex.
RECURSIVE SpScan(_, _, _, _, _)
SpScan(nbrs, i, path, visited, queue) ==
  IF i > Len(nbrs) THEN [visited |-> visited, queue |-> queue]
  ELSE IF nbrs[i] \notin visited
       THEN SpScan(nbrs, i + 1, path, visited \cup {nbrs[i]},
                   Append(queue, [vertex |-> nbrs[i],
                                  path |-> Append(path, nbrs[i])]))
       ELSE SpScan(nbrs, i + 1, path, visited, queue)

\* shortest_path: the while loop.
RECURSIVE SpLoop(_, _, _, _)
SpLoop(d, end, queue, visited) ==
  IF queue = <<>> THEN <<>>
  ELSE LET vertex == Head(queue).vertex
           path == Head(queue).path
       IN  IF vertex = end THEN path
           ELSE LET r == SpScan(get_neighbors(d, vertex), 1, path, visited,
                                Tail(queue))
                IN  SpLoop(d, end, r.queue, r.visited)

\* Graph.shortest_path, for hashable endpoints.
shortest_path(d, start, end) ==
  IF ~HasKey(d, start) \/ ~HasKey(d, end) THEN <<>>
  ELSE SpLoop(d, end, <<[vertex |-> start, path |-> <<start>>]>>, {start})

\* A wrong back-edge test: the parent is not excluded.
BackEdgeAny(neighbor, parent) == TRUE

\* is_cyclic: "elif neighbor != parent".
BackEdge(neighbor, parent) == neighbor # parent

\* is_cyclic.dfs_cycle: the for loop from position i on; dfs_cycle itself is
\* the scan from position 1 with the node added to visited.
RECURSIVE DfsCycleScan(_, _, _, _, _)
DfsCycleScan(d, node, parent, i, visited) ==
  LET nbrs == get_neighbors(d, node)
  IN  IF i > Len(nbrs) THEN [found |-> FALSE, visited |-> visited]
      ELSE IF nbrs[i] \notin visited
           THEN LET r == DfsCycleScan(d, nbrs[i], node, 1,
                                      visited \cup {nbrs[i]})
                IN  IF r.found THEN r
                    ELSE DfsCycleScan(d, node, parent, i + 1, r.visited)
           ELSE IF BackEdge(nbrs[i], parent)
                THEN [found |-> TRUE, visited |-> visited]
                ELSE DfsCycleScan(d, node, parent, i + 1, visited)

dfs_cycle(d, node, parent, visited) ==
  DfsCycleScan(d, node, parent, 1, visited \cup {node})

\* is_cyclic: the outer loop over the keys, in insertion order.
RECURSIVE IsCyclicFrom(_, _, _)
IsCyclicFrom(d, i, visited) ==
  IF i > Len(d) THEN FALSE
  ELSE IF d[i].node \notin visited
       THEN LET r == dfs_cycle(d, d[i].node, d[i].node, visited)
            IN  IF r.found THEN TRUE ELSE IsCyclicFrom(d, i + 1, r.visited)
       ELSE IsCyclicFrom(d, i + 1, visited)

\* Graph.is_cyclic
is_cyclic(d) == IsCyclicFrom(d, 1, {})

\* ------------------------------------------------------------------- state
\* adj_list: the graph's dict.  err: the exception the last call raised.
\* last_op: the method called last.  calls: the number of calls made.
\* args: the arguments of the last add_edge call, where they are recorded.
\* handle: the list object a caller got from get_neighbors; kind "alias"
\*   when it is the dict's own list of handle.node, kind "own" when the
\*   caller alone holds it (its content is handle.list).
\* other: the adj_list of a second Graph object.
\* pc, queue, stack, visited, order: the running traversal (bfs or dfs), its
\*   frontier / call stack, its visited set and its output.
\* entries: how often each node was enqueued (bfs) or entered (dfs) in the
\*   running traversal.
VARIABLES adj_list, err, last_op, calls, args, handle, other,
          pc, queue, stack, visited, order, entries

graphVars == <<adj_list, err, last_op, calls>>
travVars == <<pc, queue, stack, visited, order, entries>>
vars == <<adj_list, err, last_op, calls, args, handle, other,
          pc, queue, stack, visited, order, entries>>

NoHandle == [kind |-> "none", node |-> 0, list |-> <<>>]
NoEntries == [n \in Nodes |-> 0]

Init ==
  /\ adj_list = <<>>
  /\ err = "none"
  /\ last_op = "init"
  /\ calls = 0
  /\ args = <<>>
  /\ handle = NoHandle
  /\ other = <<>>
  /\ pc = "idle"
  /\ queue = <<>>
  /\ stack = <<>>
  /\ visited = {}
  /\ order = <<>>
  /\ entries = NoEntries

AddNode(n) ==
  /\ calls < MaxCalls
  /\ LET r == AddNodeCall(adj_list, n)
     IN  adj_list' = r.adj /\ err' = r.err
  /\ last_op' = "add_node"
  /\ calls' = calls + 1
  /\ UNCHANGED <<args, handle, other, travVars>>

\* A call of add_edge: the state it changes.
AddEdgeCall(f, t, b) ==
  /\ calls < MaxCalls
  /\ LET r == add_edge(adj_list, f, t, b)
     IN  adj_list' = r.adj /\ err' = r.err
  /\ last_op' = "add_edge"
  /\ calls' = calls + 1
  /\ UNCHANGED <<handle, other, travVars>>

AddEdge(f, t, b) == AddEdgeCall(f, t, b) /\ UNCHANGED args

\* The same call, its arguments recorded.
AddEdgeLogged(f, t, b) == AddEdgeCall(f, t, b) /\ args' = <<f, t>>

\* del adj_list[node] drops the dict's reference to the list; a caller that
\* holds the same list keeps it, now as its only owner.
RemoveNode(n) ==
  /\ calls < MaxCalls
  /\ LET r == RemoveNodeCall(adj_list, n)
     IN  /\ adj_list' = r.adj
         /\ err' = r.err
         /\ handle' = IF handle.kind = "alias" /\ handle.node = n
                         /\ HasKey(adj_list, n)
                      THEN [kind |-> "own", node |-> 0,
                            list |-> Lookup(adj_list, n)]
                      ELSE handle
  /\ last_op' = "remove_node"
  /\ calls' = calls + 1
  /\ UNCHANGED <<args, other, travVars>>

Next ==
  \/ \E n \in Values : AddNode(n)
  \/ \E f \in Values, t \in Values, b \in BOOLEAN : AddEdge(f, t, b)
  \/ \E n \in Values : RemoveNode(n)

Spec == Init /\ [][Next]_vars

\* Graphs built with add_node, remove_node and bidirectional add_edge only.
NextBidir ==
  \/ \E n \in Values : AddNode(n)
  \/ \E f \in Values, t \in Values : AddEdge(f, t, TRUE)
  \/ \E n \in Values : RemoveNode(n)

SpecBidir == Init /\ [][NextBidir]_vars

\* The calls of Next, with the arguments of add_edge recorded.
NextLogged ==
  \/ \E n \in Values : AddNode(n)
  \/ \E f \in Values, t \in Values, b \in BOOLEAN : AddEdgeLogged(f, t, b)
  \/ \E n \in Values : RemoveNode(n)

SpecLogged == Init /\ [][NextLogged]_vars

\* ------------------------------------------------- a caller of get_neighbors
\* lst = g.get_neighbors(n): dict.get returns the stored list object itself
\* for a key, and the fresh default [] otherwise.
GetNeighbors(n) ==
  /\ calls < MaxCalls
  /\ handle' = IF HasKey(adj_list, n)
               THEN [kind |-> "alias", node |-> n, list |-> <<>>]
               ELSE [kind |-> "own", node |-> 0, list |-> <<>>]
  /\ err' = "none"
  /\ last_op' = "get_neighbors"
  /\ calls' = calls + 1
  /\ UNCHANGED <<adj_list, args, other, travVars>>

\* lst.append(x) by the caller.
CallerAppend(x) ==
  /\ calls < MaxCalls
  /\ handle.kind # "none"
  /\ IF handle.kind = "alias"
     THEN /\ adj_list' = AppendNbr(adj_list, handle.node, x)
          /\ UNCHANGED handle
     ELSE /\ handle' = [handle EXCEPT !.list = Append(@, x)]
          /\ UNCHANGED adj_list
  /\ err' = "none"
  /\ last_op' = "caller_append"
  /\ calls' = calls + 1
  /\ UNCHANGED <<args, other, travVars>>

\* The list the caller holds, as it reads now.
HandleList ==
  IF handle.kind = "alias" THEN Lookup(adj_list, handle.node) ELSE handle.list

\* lst.remove(x) by the caller, for an x the list holds.
CallerRemove(x) ==
  /\ calls < MaxCalls
  /\ handle.kind # "none"
  /\ InList(HandleList, x)
  /\ IF handle.kind = "alias"
     THEN /\ adj_list' = [adj_list EXCEPT
                            ![IndexOf(adj_list, handle.node)].nbrs =
                              ListRemove(@, x)]
          /\ UNCHANGED handle
     ELSE /\ handle' = [handle EXCEPT !.list = ListRemove(@, x)]
          /\ UNCHANGED adj_list
  /\ err' = "none"
  /\ last_op' = "caller_remove"
  /\ calls' = calls + 1
  /\ UNCHANGED <<args, other, travVars>>

NextAlias ==
  \/ \E n \in Nodes : AddNode(n)
  \/ \E f \in Nodes, t \in Nodes, b \in BOOLEAN : AddEdge(f, t, b)
  \/ \E n \in Nodes : RemoveNode(n)
  \/ \E n \in Nodes : GetNeighbors(n)
  \/ \E x \in Nodes : CallerAppend(x)
  \/ \E x \in Nodes : CallerRemove(x)

SpecAlias == Init /\ [][NextAlias]_vars

\* ------------------------------------------------------ two Graph objects
OtherAddNode(n) ==
  /\ calls < MaxCalls
  /\ other' = add_node(other, n)
  /\ calls' = calls + 1
  /\ UNCHANGED <<adj_list, err, last_op, args, handle, travVars>>

OtherAddEdge(f, t, b) ==
  /\ calls < MaxCalls
  /\ f # t
  /\ other' = add_edge(other, f, t, b).adj
  /\ calls' = calls + 1
  /\ UNCHANGED <<adj_list, err, last_op, args, handle, travVars>>

OtherRemoveNode(n) ==
  /\ calls < MaxCalls
  /\ other' = remove_node(other, n)
  /\ calls' = calls + 1
  /\ UNCHANGED <<adj_list, err, last_op, args, handle, travVars>>

NextPair ==
  \/ \E n \in Nodes : AddNode(n)
  \/ \E f \in Nodes, t \in Nodes, b \in BOOLEAN : AddEdge(f, t, b)
  \/ \E n \in Nodes : RemoveNode(n)
  \/ \E n \in Nodes : OtherAddNode(n)
  \/ \E f \in Nodes, t \in Nodes, b \in BOOLEAN : OtherAddEdge(f, t, b)
  \/ \E n \in Nodes : OtherRemoveNode(n)

SpecPair == Init /\ [][NextPair]_vars

\* ------------------------------------------------- bfs and dfs, step by step
Occurrences(q, n) == Cardinality({i \in 1..Len(q) : q[i] = n})

\* bfs(graph, start) is called: the statements before the while loop.
BfsCall(s) ==
  /\ pc = "idle"
  /\ calls < MaxCalls
  /\ pc' = "bfs"
  /\ visited' = {s}
  /\ queue' = <<s>>
  /\ order' = <<>>
  /\ stack' = <<>>
  /\ entries' = [NoEntries EXCEPT ![s] = 1]
  /\ err' = "none"
  /\ last_op' = "bfs"
  /\ calls' = calls + 1
  /\ UNCHANGED <<adj_list, args, handle, other>>

\* One iteration of the while loop of bfs.
BfsIter ==
  /\ pc = "bfs"
  /\ queue # <<>>
  /\ LET current == Head(queue)
         r == BfsScan(get_neighbors(adj_list, current), 1, visited, Tail(queue))
         added == SubSeq(r.queue, Len(queue), Len(r.queue))
     IN  /\ queue' = r.queue
         /\ visited' = r.visited
         /\ order' = Append(order, current)
         /\ entries' = [n \in Nodes |-> entries[n] + Occurrences(added, n)]
  /\ UNCHANGED <<graphVars, args, handle, other, pc, stack>>

\* The while loop of bfs ends: return order.
BfsReturn ==
  /\ pc = "bfs"
  /\ queue = <<>>
  /\ pc' = "idle"
  /\ visited' = {}
  /\ UNCHANGED <<graphVars, args, handle, other, queue, stack, order, entries>>

\* dfs(graph, start) is called by the user: the statements before the for
\* loop.  A stack frame is [node, i]: the call's start and its position in
\* the for loop.
DfsCall(s) ==
  /\ pc = "idle"
  /\ calls < MaxCalls
  /\ pc' = "dfs"
  /\ visited' = {s}
  /\ order' = <<s>>
  /\ stack' = <<[node |-> s, i |-> 1]>>
  /\ queue' = <<>>
  /\ entries' = [NoEntries EXCEPT ![s] = 1]
  /\ err' = "none"
  /\ last_op' = "dfs"
  /\ calls' = calls + 1
  /\ UNCHANGED <<adj_list, args, handle, other>>

\* One step of the innermost dfs call: an iteration of its for loop, which
\* recurses into an unvisited neighbour, or its return.
DfsIter ==
  /\ pc = "dfs"
  /\ stack # <<>>
  /\ LET top == stack[Len(stack)]
         nbrs == get_neighbors(adj_list, top.node)
         rest == SubSeq(stack, 1, Len(stack) - 1)
     IN  IF top.i > Len(nbrs)
         THEN /\ stack' = rest
              /\ pc' = IF rest = <<>> THEN "idle" ELSE "dfs"
              /\ visited' = IF rest = <<>> THEN {} ELSE visited
              /\ UNCHANGED <<order, entries>>
         ELSE LET neighbor == nbrs[top.i]
                  advanced == Append(rest, [top EXCEPT !.i = @ + 1])
              IN  IF neighbor \notin visited
                  THEN /\ stack' = Append(advanced, [node |-> neighbor, i |-> 1])
                       /\ visited' = visited \cup {neighbor}
                       /\ order' = Append(order, neighbor)
                       /\ entries' = [entries EXCEPT ![neighbor] = @ + 1]
                       /\ UNCHANGED pc
                  ELSE /\ stack' = advanced
                       /\ UNCHANGED <<pc, visited, order, entries>>
  /\ UNCHANGED <<graphVars, args, handle, other, queue>>

\* The Graph is used from one thread: no method runs while a traversal does.
IdleAddNode(n) == pc = "idle" /\ AddNode(n)
IdleAddEdge(f, t, b) == pc = "idle" /\ AddEdge(f, t, b)
IdleRemoveNode(n) == pc = "idle" /\ RemoveNode(n)

TravStep == BfsIter \/ BfsReturn \/ DfsIter

NextTrav ==
  \/ \E n \in Nodes : IdleAddNode(n)
  \/ \E f \in Nodes, t \in Nodes, b \in BOOLEAN : IdleAddEdge(f, t, b)
  \/ \E n \in Nodes : IdleRemoveNode(n)
  \/ \E s \in Nodes : BfsCall(s)
  \/ \E s \in Nodes : DfsCall(s)
  \/ BfsIter
  \/ BfsReturn
  \/ DfsIter

\* A started traversal runs on: its loop is not suspended.
SpecTrav == Init /\ [][NextTrav]_vars /\ WF_vars(TravStep)

\* ------------------------------------------------------- reference notions
\* The nodes within k hops of s along neighbour lists.
RECURSIVE Within(_, _, _)
Within(d, s, k) ==
  IF k = 0 THEN {s}
  ELSE LET w == Within(d, s, k - 1)
       IN  w \cup UNION {Elems(get_neighbors(d, u)) : u \in w}

Reach(d, s) == Within(d, s, Len(d))

\* Hop distance from s to a node v of Reach(d, s).
Dist(d, s, v) ==
  CHOOSE k \in 0..Len(d) :
    v \in Within(d, s, k) /\ (k = 0 \/ v \notin Within(d, s, k - 1))

PosIn(s, x) == CHOOSE i \in 1..Len(s) : s[i] = x

\* p is a walk from s to e along neighbour lists.
IsWalk(d, p, s, e) ==
  /\ Len(p) >= 1
  /\ p[1] = s
  /\ p[Len(p)] = e
  /\ \A i \in 1..(Len(p) - 1) : InList(get_neighbors(d, p[i]), p[i + 1])

AllEmpty(d) == \A i \in 1..Len(d) : d[i].nbrs = <<>>
ArcCount(d) ==
  Cardinality({<<a, b>> \in Nodes \X Nodes : InList(get_neighbors(d, a), b)})

\* ------------------------------------------------------------------ claims
NoDangling(d) ==
  \A i \in 1..Len(d) : \A x \in Elems(d[i].nbrs) : HasKey(d, x)

\* C1: in every state reached by add_node, add_edge (either direction mode)
\* and remove_node calls, every node of a neighbour list is a key of the
\* mapping; and removing any node x leaves no list that holds x.
C1_NoDanglingNeighbors ==
  /\ NoDangling(adj_list)
  /\ \A x \in Nodes :
       LET after == remove_node(adj_list, x)
       IN  /\ ~HasKey(after, x)
           /\ \A y \in Nodes : ~InList(get_neighbors(after, y), x)

\* A removal as third call that left two nodes and no arc: the node removed
\* was an endpoint of every edge built before.
C1_Witness ==
  /\ last_op = "remove_node"
  /\ err = "none"
  /\ calls = 3
  /\ Len(adj_list) = 2
  /\ AllEmpty(adj_list)

\* C4: shortest_path(start, end) is [] when an endpoint is absent or end is
\* unreachable from start; otherwise it is a walk from start to end along
\* neighbour lists with the least possible number of nodes; it is [x] for
\* start = end = x present.
C4_ShortestPath ==
  \A s \in Nodes, e \in Nodes :
    LET p == shortest_path(adj_list, s, e)
    IN  IF ~HasKey(adj_list, s) \/ ~HasKey(adj_list, e)
           \/ e \notin Reach(adj_list, s)
        THEN p = <<>>
        ELSE /\ IsWalk(adj_list, p, s, e)
             /\ Len(p) = Dist(adj_list, s, e) + 1
             /\ (s = e => p = <<s>>)

\* A path of three nodes was returned in a graph of at least four arcs, and
\* some present node is unreachable from the path's end.
C4_Witness ==
  \E s \in Nodes, e \in Nodes :
    /\ Len(shortest_path(adj_list, s, e)) = 3
    /\ ArcCount(adj_list) >= 4
    /\ \E t \in KeySet(adj_list) : shortest_path(adj_list, e, t) = <<>>

\* The dequeued node that discovered v: the first node of the order that has
\* v in its neighbour list.
Discoverer(d, o, v) ==
  o[CHOOSE k \in 1..Len(o) :
      /\ InList(get_neighbors(d, o[k]), v)
      /\ \A j \in 1..(k - 1) : ~InList(get_neighbors(d, o[j]), v)]

\* C5: bfs(graph, start) begins with start, lists exactly the nodes reachable
\* from start, each once, by non-decreasing hop distance, nodes discovered
\* from the same dequeued node in that node's list order; for an absent
\* start it is [start].
C5_BfsOrder ==
  \A s \in Nodes :
    LET o == bfs(adj_list, s)
    IN  /\ Len(o) >= 1
        /\ o[1] = s
        /\ Elems(o) = Reach(adj_list, s)
        /\ Len(o) = Cardinality(Reach(adj_list, s))
        /\ \A i \in 1..Len(o), j \in 1..Len(o) :
             i < j => Dist(adj_list, s, o[i]) <= Dist(adj_list, s, o[j])
        /\ \A i \in 2..Len(o), j \in 2..Len(o) :
             (i < j /\ Discoverer(adj_list, o, o[i]) = Discoverer(adj_list, o, o[j]))
               => LET u == Discoverer(adj_list, o, o[i])
                  IN  PosIn(get_neighbors(adj_list, u), o[i])
                        < PosIn(get_neighbors(adj_list, u), o[j])
        /\ (~HasKey(adj_list, s) => o = <<s>>)

\* A start with two neighbours discovered in list order and a node two hops
\* away.
C5_Witness ==
  \E s \in Nodes, t \in Nodes :
    LET o == bfs(adj_list, s)
    IN  /\ Len(o) >= 3
        /\ Len(get_neighbors(adj_list, s)) >= 2
        /\ \E v \in Elems(o) : Dist(adj_list, s, v) = 2
        /\ HasKey(adj_list, t)

\* C2: with bidirectional add_edge only, b is a neighbour of a exactly when a
\* is a neighbour of b.
C2_Symmetric ==
  \A a \in Nodes, b \in Nodes :
    InList(get_neighbors(adj_list, a), b) <=> InList(get_neighbors(adj_list, b), a)

\* An edge that survived the removal of another node.
C2_Witness ==
  /\ last_op = "remove_node"
  /\ calls >= 3
  /\ ArcCount(adj_list) >= 2

\* Some simple path a = v1, ..., cur of n nodes, all in used, extends to one
\* of at least 3 nodes whose last node is adjacent to a.
RECURSIVE ClosesCycle(_, _, _, _, _)
ClosesCycle(d, a, cur, used, n) ==
  \/ n >= 3 /\ InList(get_neighbors(d, cur), a)
  \/ \E nxt \in Elems(get_neighbors(d, cur)) \ used :
       ClosesCycle(d, a, nxt, used \cup {nxt}, n + 1)

\* The graph holds a simple cycle of at least 3 distinct nodes.
HasSimpleCycle(d) == \E a \in KeySet(d) : ClosesCycle(d, a, a, {a}, 1)

\* C6: on graphs built with bidirectional edges only, is_cyclic is true
\* exactly when some component holds a simple cycle of at least 3 nodes.
C6_IsCyclic == is_cyclic(adj_list) <=> HasSimpleCycle(adj_list)

\* A cycle found in a component other than that of the first key, which is
\* an isolated node.
C6_Witness ==
  /\ Len(adj_list) >= 4
  /\ adj_list[1].nbrs = <<>>
  /\ is_cyclic(adj_list)

\* C7: on graphs built with bidirectional edges only, is_connected is true
\* exactly when the graph is empty or has_path(a, b) for all present a, b;
\* the BFS start node makes no difference.
C7_IsConnected ==
  LET allPairs == \A a \in KeySet(adj_list), b \in KeySet(adj_list) :
                    has_path(adj_list, a, b)
      connected == is_connected(adj_list)
  IN  /\ connected <=> (adj_list = <<>> \/ allPairs)
      /\ \A s \in KeySet(adj_list) :
           connected <=> Cardinality(Elems(bfs(adj_list, s))) = Len(adj_list)

\* A removal that left the remaining nodes in two components.
C7_Witness ==
  /\ last_op = "remove_node"
  /\ calls = 3
  /\ Len(adj_list) = 2
  /\ ~is_connected(adj_list)

\* C3: a caller that appends to or removes from the list get_neighbors
\* returned never changes the graph's adjacency mapping.
C3_NoAliasing ==
  [][last_op' \in {"caller_append", "caller_remove"} => adj_list' = adj_list]_vars

NoSelfLoop(d) == \A i \in 1..Len(d) : ~InList(d[i].nbrs, d[i].node)

\* Integer, string, or tuple of such values.
IsNodeType(v) == v \in Nodes

\* C8: add_edge fails with the type error when an argument is not of an
\* allowed type and with the self-loop error when from = to of an allowed
\* type, in both cases leaving the adjacency mapping as it was; no node is
\* ever its own neighbour.
C8_AddEdgeRejects ==
  [][last_op' = "add_edge" =>
       LET f == args'[1]
           t == args'[2]
       IN  /\ (~IsNodeType(f) \/ ~IsNodeType(t))
                => (err' = "TypeError" /\ adj_list' = adj_list)
           /\ (IsNodeType(f) /\ IsNodeType(t) /\ f = t)
                => (err' = "ValueError" /\ adj_list' = adj_list)
           /\ NoSelfLoop(adj_list')]_vars

\* C9: bfs and dfs terminate, and no node is enqueued or entered more than
\* once during a run.
C9_TraversalTerminates ==
  /\ [](\A n \in Nodes : entries[n] <= 1)
  /\ (pc # "idle") ~> (pc = "idle")

\* A dfs that returned after visiting three nodes of a graph with a cycle,
\* one of whose edges is one-directional.
C9_Witness ==
  /\ pc = "idle"
  /\ last_op = "dfs"
  /\ Len(order) = 3
  /\ is_cyclic(adj_list)
  /\ \E a \in Nodes, b \in Nodes :
       InList(get_neighbors(adj_list, a), b) /\ ~InList(get_neighbors(adj_list, b), a)

SameAdjacency(d1, d2) ==
  /\ KeySet(d1) = KeySet(d2)
  /\ \A n \in KeySet(d1) : Lookup(d1, n) = Lookup(d2, n)

\* C10: two graphs with the same node set and the same neighbour list for
\* every node, whatever the order their nodes were inserted in, have the same
\* is_cyclic.
C10_OrderIndependent ==
  SameAdjacency(adj_list, other) => (is_cyclic(adj_list) = is_cyclic(other))

====
